---- MODULE Spec2Model ----
(***************************************************************************)
(* Model of the Monte Carlo retirement engine, src/src/lib/monteCarlo.ts:  *)
(* the seeded generator SeededRandom and runMonteCarlo.                    *)
(*                                                                         *)
(* Numbers.  A 32-bit generator word is a record [hi, lo] of its two       *)
(* 16-bit halves (TLC integers are 32-bit signed, a whole word does not    *)
(* fit).  Money is an integer number of rupees.  Rates (returns,           *)
(* inflation, taper, cut, yield, correlation) and the normal shocks are    *)
(* integers in hundredths: 11 stands for 0.11.  A product is rounded away   *)
(* from zero to the next unit, so that it is 0 or negative exactly when the *)
(* product of the two numbers is.                                          *)
(***************************************************************************)
EXTENDS Integers, Sequences, FiniteSets, TLC

----------------------------------------------------------------------------
(* 32-bit words *)

(* Bind(x, F) is F(x) with x evaluated once: TLC re-evaluates an operator's *)
(* argument at each of its uses, a bound variable holds a value.            *)
Bind(x, F(_)) == CHOOSE r \in { F(v) : v \in { x } } : TRUE

H == 2 ^ 16

Pow2(n) == 2 ^ n

\* bitwise exclusive or of two n-bit numbers
RECURSIVE Xor16(_, _, _)
Xor16(a, b, n) ==
    IF n = 0 THEN 0
    ELSE ((a + b) % 2) + 2 * Xor16(a \div 2, b \div 2, n - 1)

Word(hi, lo) == [hi |-> hi, lo |-> lo]

ZeroWord == Word(0, 0)

\* a ^ b
Xor(a, b) == Word(Xor16(a.hi, b.hi, 16), Xor16(a.lo, b.lo, 16))

\* a >>> n, 0 < n < 32
Shr(a, n) ==
    IF n >= 16 THEN Word(0, a.hi \div Pow2(n - 16))
    ELSE Word(a.hi \div Pow2(n),
              (a.lo \div Pow2(n)) + (a.hi % Pow2(n)) * Pow2(16 - n))

\* (a << n) >>> 0, 0 < n < 32
Shl(a, n) ==
    IF n >= 16 THEN Word((a.lo % Pow2(32 - n)) * Pow2(n - 16), 0)
    ELSE Word(((a.hi % Pow2(16 - n)) * Pow2(n)) + (a.lo \div Pow2(16 - n)),
              (a.lo % Pow2(16 - n)) * Pow2(n))

\* (a + b) >>> 0
Add32(a, b) ==
    Word((a.hi + b.hi + ((a.lo + b.lo) \div H)) % H, (a.lo + b.lo) % H)

\* the four bytes of a word, least significant first
Bytes(a) == << a.lo % 256, a.lo \div 256, a.hi % 256, a.hi \div 256 >>

\* column k (0..7) of the schoolbook product of two 4-byte numbers
Column(x, y, k) ==
    LET Term(i) == IF k - i >= 0 /\ k - i <= 3 THEN x[i + 1] * y[k - i + 1] ELSE 0
    IN  Term(0) + Term(1) + Term(2) + Term(3)

\* the bytes k..7 of the exact 64-bit product, least significant first
RECURSIVE ProductBytes(_, _, _, _)
ProductBytes(x, y, k, carry) ==
    IF k = 8 THEN << >>
    ELSE Bind(Column(x, y, k) + carry,
              LAMBDA t : << t % 256 >> \o ProductBytes(x, y, k + 1, t \div 256))

\* number of bits of a byte
RECURSIVE BitLen8(_)
BitLen8(b) == IF b = 0 THEN 0 ELSE 1 + BitLen8(b \div 2)

\* index of the highest set bit among the k low bytes of bs, -1 when none is set
RECURSIVE TopBit(_, _)
TopBit(bs, k) ==
    IF k = 0 THEN 0 - 1
    ELSE IF bs[k] # 0 THEN 8 * (k - 1) + BitLen8(bs[k]) - 1
    ELSE TopBit(bs, k - 1)

(* The low 32 bits of the double nearest to the 64-bit number with bytes p: *)
(* the number keeps 53 significant bits, ties to even, so k = TopBit - 52   *)
(* low bits (at most 11) are rounded away.                                  *)
RoundToUint32(p, k) ==
    LET lo   == p[1] + 256 * p[2]
        hi   == p[3] + 256 * p[4]
        drop == lo % Pow2(k)
        half == IF k = 0 THEN 0 ELSE Pow2(k - 1)
        odd  == (lo \div Pow2(k)) % 2
        up   == k > 0 /\ (drop > half \/ (drop = half /\ odd = 1))
        lo2  == IF up THEN (lo - drop) + Pow2(k) ELSE lo - drop
    IN  Word((hi + (lo2 \div H)) % H, lo2 % H)

\* (a * c) >>> 0, where a * c is a multiplication of JS numbers (doubles)
MulDouble32(a, c) ==
    Bind(ProductBytes(Bytes(a), Bytes(c), 0, 0),
         LAMBDA p : Bind(TopBit(p, 8),
                         LAMBDA t : RoundToUint32(p, IF t > 52 THEN t - 52 ELSE 0)))

----------------------------------------------------------------------------
(* SeededRandom *)

DefaultSeed == 12345

\* randomSeed?: number is a sequence of at most one number; << >> is undefined
NoSeed == << >>

\* 0x85ebca6b, 0xc2b2ae35, 0x9e3779b9
MixA == Word(34283, 51819)
MixB == Word(49842, 44597)
Golden == Word(40503, 31161)

\* seed >>> 0, for a seed that is a natural number below 2^31
ToUint32(seed) == Word(seed \div H, seed % H)

\* s ^ (s >>> n)
XorShr(s, n) == Xor(s, Shr(s, n))

\* the avalanche mix the constructor applies to a word s
Mix(s) ==
    Bind(MulDouble32(XorShr(s, 16), MixA),
         LAMBDA a : Bind(MulDouble32(XorShr(a, 13), MixB),
                         LAMBDA b : XorShr(b, 16)))

\* the constructor's two state words before the non-zero check
SeedWords(seed) ==
    [s0 |-> Mix(ToUint32(seed)), s1 |-> Mix(Add32(ToUint32(seed), Golden))]

\* if (this.s0 === 0 && this.s1 === 0) this.s0 = 1
EnsureNonZero(g) ==
    IF g.s0 = ZeroWord /\ g.s1 = ZeroWord THEN [g EXCEPT !.s0 = Word(0, 1)] ELSE g

\* a constructor without the default parameter: undefined >>> 0 is 0
SeededRandomNoDefault(seedArg) ==
    Bind(SeedWords(IF seedArg = NoSeed THEN 0 ELSE seedArg[1]),
         LAMBDA g : EnsureNonZero(g))

\* new SeededRandom(seed): the default parameter replaces an absent seed
SeededRandom(seedArg) ==
    Bind(SeedWords(IF seedArg = NoSeed THEN DefaultSeed ELSE seedArg[1]),
         LAMBDA g : EnsureNonZero(g))

\* the generator state after one next(), from the state words a = s0, b = s1
NextWords(a, b) ==
    Bind(Xor(a, Shl(a, 23)),
         LAMBDA x1 : Bind(XorShr(x1, 17),
                          LAMBDA x2 : Bind(Xor(x2, b),
                                           LAMBDA x3 : [s0 |-> b, s1 |-> Xor(x3, Shr(b, 26))])))

NextState(g) == NextWords(g.s0, g.s1)

\* the value next() returns from the new state, as the numerator of u = w / 2^32
NextValue(g2) == Add32(g2.s0, g2.s1)

Scale == 100

Max(a, b) == IF a >= b THEN a ELSE b

\* n / d for d > 0, rounded away from zero to a whole unit
RoundDiv(n, d) == IF n >= 0 THEN (n + d - 1) \div d ELSE 0 - ((d - 1 - n) \div d)

(* Math.sqrt(-2 ln u) and Math.cos(2 pi v) in hundredths, tabulated on the  *)
(* top three bits of the uniform's 32-bit numerator at each cell's midpoint *)
(* u = (2k+1)/16.                                                           *)
Radius == << 236, 183, 153, 129, 107, 87, 64, 36 >>
Cosine == << 92, 38, -38, -92, -92, -38, 38, 92 >>

Cell8(w) == (w.hi \div 8192) + 1

\* a draw taken as it comes, zero or not
DrawAny(g, n) ==
    Bind(NextState(g), LAMBDA g2 : [rng |-> g2, w |-> NextValue(g2), n |-> n + 1])

\* while (u === 0) u = this.next(): the first nonzero draw, the state after it
\* and the number of draws taken, n counting those before
RECURSIVE DrawNonZero(_, _)
DrawNonZero(g, n) ==
    Bind(NextState(g),
         LAMBDA g2 : Bind(NextValue(g2),
                          LAMBDA w : IF w = ZeroWord THEN DrawNonZero(g2, n + 1)
                                     ELSE [rng |-> g2, w |-> w, n |-> n + 1]))

\* the Box-Muller value num * std + mean from the two nonzero uniforms
BoxMuller(u, v, mean, std) ==
    RoundDiv(RoundDiv(Radius[Cell8(u)] * Cosine[Cell8(v)], Scale) * std, Scale) + mean

\* nextNormal(mean, std) with mean and std in hundredths: the value, the
\* generator state after it and the number of uniforms it consumed
NextNormal(g, mean, std) ==
    Bind(DrawNonZero(g, 0),
         LAMBDA du : Bind(DrawNonZero(du.rng, 0),
                          LAMBDA dv : [ z |-> BoxMuller(du.w, dv.w, mean, std),
                                        rng |-> dv.rng, n |-> du.n + dv.n ]))

----------------------------------------------------------------------------
(* Configurations *)

MaxSims == 3
MaxYears == 3
MaxCalls == 3

Min(a, b) == IF a <= b THEN a ELSE b

\* SimulationParams; sims, years and randomSeed are set by Params below
Base ==
    [ startCorpus |-> 1000, w0 |-> 60, inflation |-> 8, inflationSD |-> 2,
      returnInflationCorr |-> 20, years |-> 1, meanR |-> 11, stdR |-> 18,
      taper |-> 5, sims |-> 1, discretionarySpend |-> 20, cutPct |-> 50,
      safeBucketYears |-> 2, taperStartYear |-> 2,
      useFirstNYearsReserve |-> TRUE, reserveR |-> 6, randomSeed |-> NoSeed ]

Presets ==
    { Base,
      \* reserve drawn in loss years only
      [Base EXCEPT !.useFirstNYearsReserve = FALSE, !.stdR = 40],
      \* no reserve, spending above what the corpus can carry
      [Base EXCEPT !.startCorpus = 100, !.safeBucketYears = 0, !.reserveR = 0],
      \* reserve larger than the corpus
      [Base EXCEPT !.startCorpus = 100, !.safeBucketYears = 2],
      \* returns below -100%
      [Base EXCEPT !.startCorpus = 300, !.meanR = -20, !.stdR = 60,
                   !.useFirstNYearsReserve = FALSE, !.safeBucketYears = 1],
      \* a corpus of one rupee, nothing spent
      [Base EXCEPT !.startCorpus = 1, !.w0 = 0, !.discretionarySpend = 0,
                   !.meanR = 0, !.stdR = 40, !.safeBucketYears = 0],
      \* nothing to start with
      [Base EXCEPT !.startCorpus = 0],
      \* no volatility
      [Base EXCEPT !.stdR = 0, !.inflationSD = 0, !.startCorpus = 150],
      \* discretionary amount above the base spend
      [Base EXCEPT !.startCorpus = 200, !.discretionarySpend = 80,
                   !.taperStartYear = 1, !.safeBucketYears = 1],
      \* no volatility, a loss every year
      [Base EXCEPT !.stdR = 0, !.inflationSD = 0, !.meanR = 0 - 10,
                   !.startCorpus = 400],
      \* a return of exactly 0 every year
      [Base EXCEPT !.stdR = 0, !.meanR = 0],
      \* a reserve with a negative yield
      [Base EXCEPT !.reserveR = 0 - 5],
      \* losses with nothing but the cut moving the discretionary level
      [Base EXCEPT !.inflation = 0, !.inflationSD = 0, !.taper = 0,
                   !.meanR = 0 - 10, !.stdR = 40, !.discretionarySpend = 40,
                   !.taperStartYear = 1],
      \* deflation deep enough to reach the floor of the clip
      [Base EXCEPT !.inflation = 0 - 95, !.inflationSD = 20] }

Seeds == { NoSeed, << 1 >>, << 2 >>, << DefaultSeed >> }

SimsDomain == (0 - 1) .. MaxSims
YearsDomain == 0 .. MaxYears

WithRun(c, s, y, sd) == [c EXCEPT !.sims = s, !.years = y, !.randomSeed = sd]

\* a seed whose third next() returns exactly 0
ZeroDrawSeed == << 1425464673 >>

\* the cut fractions with which one configuration is called again
CutPcts == { 0, 50, 100 }

\* one configuration with losses, called with each cut fraction
CutParams ==
    { WithRun([Base EXCEPT !.meanR = 0 - 10, !.stdR = 40, !.startCorpus = 400,
                           !.cutPct = c], 2, Min(2, MaxYears), << 1 >>) :
        c \in CutPcts }

AllParams ==
    { WithRun(c, s, y, sd) : c \in Presets, s \in SimsDomain, y \in YearsDomain,
                             sd \in Seeds }
      \cup { WithRun(Base, s, y, ZeroDrawSeed) : s \in SimsDomain, y \in YearsDomain }
      \cup CutParams

MaxChanges == 3

\* DEFAULT_PARAMS of the dashboard, at the scale of the model
DEFAULT_PARAMS == WithRun(Base, 2, Min(2, MaxYears), << DefaultSeed >>)

\* what the controls can turn the dashboard's parameters into: the seed is
\* not among the controls
DashParams ==
    { DEFAULT_PARAMS,
      [DEFAULT_PARAMS EXCEPT !.startCorpus = 100, !.safeBucketYears = 0,
                             !.reserveR = 0] }

\* the configurations with which runMonteCarlo is called again and again
RepeatParams ==
    { WithRun(c, 2, Min(2, MaxYears), sd) :
        c \in { Base, [Base EXCEPT !.startCorpus = 100, !.safeBucketYears = 0,
                                   !.reserveR = 0] },
        sd \in { << 1 >>, << 2 >> } }

\* one configuration called without a seed and with the default seed spelled out
DefaultSeedParams ==
    { WithRun(Base, 2, Min(2, MaxYears), sd) : sd \in { NoSeed, << DefaultSeed >> } }

----------------------------------------------------------------------------
(* Typed arrays and JS values *)

\* a value that may be undefined: << v >> or << >>
Undefined == << >>

\* new Float64Array(n), n >= 0: n zeros
NewFloat64Array(n) == [i \in 1 .. n |-> 0]

\* arr[i] with a 0-based index: undefined outside the array
Load(arr, i) == IF i >= 0 /\ i < Len(arr) THEN << arr[i + 1] >> ELSE Undefined

\* arr[i] = v: a write outside a typed array is ignored
Store(arr, i, v) == IF i >= 0 /\ i < Len(arr) THEN [arr EXCEPT ![i + 1] = v] ELSE arr

----------------------------------------------------------------------------
(* One simulated year of one trial *)

\* the largest n with n * n <= x
ISqrt(x) == CHOOSE n \in 0 .. Scale : n * n <= x /\ (n + 1) * (n + 1) > x

\* Math.sqrt(Math.max(0, 1 - corr * corr)), in hundredths
CorrSqrt(p) ==
    ISqrt(Max(0, Scale * Scale - p.returnInflationCorr * p.returnInflationCorr))

\* a return whose shock is not scaled by stdR
AnnualReturnUnscaled(p, z1) == p.meanR + z1

\* z1, z2, the return r and the inflation of the year, and the generator after
AnnualReturn(p, z1) == p.meanR + RoundDiv(p.stdR * z1, Scale)

AnnualInfl(p, z1, z2) ==
    p.inflation
      + RoundDiv(p.inflationSD
                   * RoundDiv(p.returnInflationCorr * z1 + CorrSqrt(p) * z2, Scale),
                 Scale)

\* the two draws taken in the other order: the inflation shock first
ShocksSwapped(p, g) ==
    Bind(NextNormal(g, 0, Scale),
         LAMBDA n2 : Bind(NextNormal(n2.rng, 0, Scale),
                          LAMBDA n1 : [ z1 |-> n1.z, z2 |-> n2.z,
                                        r |-> AnnualReturn(p, n1.z),
                                        annualInfl |-> AnnualInfl(p, n1.z, n2.z),
                                        rng |-> n1.rng,
                                        uniforms |-> n1.n + n2.n ]))

Shocks(p, g) ==
    Bind(NextNormal(g, 0, Scale),
         LAMBDA n1 : Bind(NextNormal(n1.rng, 0, Scale),
                          LAMBDA n2 : [ z1 |-> n1.z, z2 |-> n2.z,
                                        r |-> AnnualReturn(p, n1.z),
                                        annualInfl |-> AnnualInfl(p, n1.z, n2.z),
                                        rng |-> n2.rng,
                                        uniforms |-> n1.n + n2.n ]))

InflFloor == 0 - 99

\* the sampled inflation used as it comes
ClipInflNone(annualInfl) == annualInfl

\* const clippedInfl = Math.max(-0.99, annualInfl)
ClipInfl(annualInfl) == Max(InflFloor, annualInfl)

\* x *= (1.0 + rate)
Grow(x, rate) == RoundDiv(x * (Scale + rate), Scale)

\* a reserve that compounds whatever the sign of its yield
ReserveGrowAlways(safe, p) == Grow(safe, p.reserveR)

\* the safe bucket compounds only when it is positive and the yield is positive
ReserveGrow(safe, p) ==
    IF safe > 0 /\ p.reserveR > 0 THEN Grow(safe, p.reserveR) ELSE safe

\* an update that tapers from the taper-start year itself
InflateTaperEarly(w, p, y, ci) ==
    IF y > 1
    THEN IF y < p.taperStartYear
         THEN RoundDiv(w * (Scale + ci), Scale)
         ELSE RoundDiv(w * ((Scale + ci) * (Scale - p.taper)), Scale * Scale)
    ELSE w

\* the year-over-year update of a spending level w
Inflate(w, p, y, ci) ==
    IF y > 1
    THEN IF y <= p.taperStartYear
         THEN RoundDiv(w * (Scale + ci), Scale)
         ELSE RoundDiv(w * ((Scale + ci) * (Scale - p.taper)), Scale * Scale)
    ELSE w

\* a year without a gain counted as a loss year
IsBadYearOrFlat(r) == r <= 0

\* const isBadYear = r < 0.0
IsBadYear(r) == r < 0

\* the discretionary cut of a bad year
Cut(wd, p, r) ==
    IF IsBadYear(r) THEN RoundDiv(wd * (Scale - p.cutPct), Scale) ELSE wd

\* the discretionary level drawn on top of the spending level
TotalWOnTop(wa, wd) == wa + wd

\* a total whose essential part may go negative
TotalWUnclipped(wa, wd) == (wa - wd) + wd

\* wEssential + w_disc_adj with wEssential = Math.max(0, w_annual - w_disc_adj)
TotalW(wa, wd) == Max(0, wa - wd) + wd

\* the first-years mode without its window of years
UseReserveNoWindow(p, y, r, safe) ==
    IF p.useFirstNYearsReserve THEN safe > 0 ELSE r < 0 /\ safe > 0

\* the loss-year mode confined to the first safeBucketYears years
UseReserveWindowed(p, y, r, safe) ==
    IF p.useFirstNYearsReserve
    THEN y <= p.safeBucketYears /\ safe > 0
    ELSE r < 0 /\ safe > 0 /\ y <= p.safeBucketYears

\* whether this year's withdrawal goes to the safe bucket first
UseReserve(p, y, r, safe) ==
    IF p.useFirstNYearsReserve
    THEN y <= p.safeBucketYears /\ safe > 0
    ELSE IsBadYear(r) /\ safe > 0

\* a reserve-first withdrawal without the overflow to the risky corpus
WithdrawNoOverflow(p, y, r, risky, safe, w) ==
    IF UseReserve(p, y, r, safe)
    THEN [risky |-> risky, safe |-> safe - w]
    ELSE [risky |-> risky - w, safe |-> safe]

\* an overflow that debits the whole withdrawal from the risky corpus
WithdrawWholeOverflow(p, y, r, risky, safe, w) ==
    IF UseReserve(p, y, r, safe)
    THEN IF safe >= w
         THEN [risky |-> risky, safe |-> safe - w]
         ELSE [risky |-> risky - w, safe |-> 0]
    ELSE [risky |-> risky - w, safe |-> safe]

\* a risky-side shortfall that spills over to the reserve
WithdrawSpill(p, y, r, risky, safe, w) ==
    IF UseReserve(p, y, r, safe)
    THEN IF safe >= w
         THEN [risky |-> risky, safe |-> safe - w]
         ELSE [risky |-> risky - (w - safe), safe |-> 0]
    ELSE IF risky >= w
         THEN [risky |-> risky - w, safe |-> safe]
         ELSE [risky |-> 0, safe |-> Max(0, safe - (w - risky))]

\* the two buckets after the withdrawal, before the floor at 0
Withdraw(p, y, r, risky, safe, w) ==
    IF UseReserve(p, y, r, safe)
    THEN IF safe >= w
         THEN [risky |-> risky, safe |-> safe - w]
         ELSE [risky |-> risky - (w - safe), safe |-> 0]
    ELSE [risky |-> risky - w, safe |-> safe]

\* no floor at 0
NoClamp(x) == x

\* riskyCorpus = Math.max(0.0, riskyCorpus)
Clamp(x) == Max(0, x)

Terminal(risky, safe) == risky = 0 /\ safe = 0

\* the body of the year loop up to the record step, from the trial state t
AfterShocks(p, t, sh, y) ==
    LET ci    == ClipInfl(sh.annualInfl)
        grown == Grow(t.riskyCorpus, sh.r)
        safe1 == ReserveGrow(t.safeRemain, p)
        wa    == Inflate(t.w_annual, p, y, ci)
        wd    == Cut(Inflate(t.w_disc_adj, p, y, ci), p, sh.r)
        w     == TotalW(wa, wd)
        out   == Withdraw(p, y, sh.r, grown, safe1, w)
    IN  [ riskyCorpus |-> Clamp(out.risky), safeRemain |-> out.safe,
          w_annual |-> wa, w_disc_adj |-> wd, rng |-> sh.rng,
          z1 |-> sh.z1, z2 |-> sh.z2,
          r |-> sh.r, clippedInfl |-> ci, totalW |-> w, grown |-> grown,
          safeGrown |-> safe1, preClamp |-> out.risky, uniforms |-> sh.uniforms ]

YearBody(p, t, g, y) == Bind(Shocks(p, g), LAMBDA sh : AfterShocks(p, t, sh, y))

\* a fill that starts at the year just recorded
FillCellsFromCurrent(p, s, from) ==
    [ k \in 1 .. Max(0, p.years - from + 2) |-> (from + k - 2) * p.sims + s ]

\* the indices futureYr * sims + sim for futureYr = from .. years, in order
FillCells(p, s, from) ==
    [ k \in 1 .. Max(0, p.years - from + 1) |-> (from + k - 1) * p.sims + s ]

\* totalByYear[futureYr * sims + sim] = 0 for futureYr = from .. years
FillZeros(buf, p, s, from) ==
    [ i \in 1 .. Len(buf) |->
        IF \E k \in DOMAIN FillCells(p, s, from) : FillCells(p, s, from)[k] = i - 1
        THEN 0 ELSE buf[i] ]

----------------------------------------------------------------------------
(* Percentiles *)

\* seq with v inserted before its first element that is greater than v
RECURSIVE Insert(_, _)
Insert(seq, v) ==
    IF seq = << >> THEN << v >>
    ELSE IF v < Head(seq) THEN << v >> \o seq
    ELSE << Head(seq) >> \o Insert(Tail(seq), v)

RECURSIVE SortedUpTo(_, _)
SortedUpTo(seq, n) ==
    IF n = 0 THEN << >>
    ELSE Bind(SortedUpTo(seq, n - 1), LAMBDA sorted : Insert(sorted, seq[n]))

\* the slice left in trial order
NoSort(seq) == seq

\* Float64Array.prototype.sort(): ascending numeric order
SortAsc(seq) == SortedUpTo(seq, Len(seq))

\* the copy of year y's slice of the buffer
YearValues(buf, p, y) == [i \in 1 .. p.sims |-> buf[y * p.sims + i]]

\* the rank taken among sims - 1 intervals
PercentileIndexOfIntervals(pct, sims) == (pct * (sims - 1)) \div Scale

\* Math.floor(pct * sims) for pct = 0.10, 0.50, 0.90 given in hundredths
PercentileIndex(pct, sims) == (pct * sims) \div Scale

SuccessThreshold == 1

\* a threshold that is not strict
IsSuccessNotStrict(v) == v >= SuccessThreshold

IsSuccess(v) == v > SuccessThreshold

RECURSIVE SuccessCount(_, _)
SuccessCount(vals, n) ==
    IF n = 0 THEN 0
    ELSE SuccessCount(vals, n - 1) + (IF IsSuccess(vals[n]) THEN 1 ELSE 0)

\* (successCount / sims) * 100 as the fraction num / den; 0 / 0 is NaN
Percent(count, sims) == [num |-> count * Scale, den |-> sims]

Summary(yearValues, p, y) ==
    [ year |-> y,
      p10 |-> Load(yearValues, PercentileIndex(10, p.sims)),
      p50 |-> Load(yearValues, PercentileIndex(50, p.sims)),
      p90 |-> Load(yearValues, PercentileIndex(90, p.sims)),
      successRate |-> Percent(SuccessCount(yearValues, Len(yearValues)), p.sims) ]

YearResult(buf, p, y) ==
    Bind(YearValues(buf, p, y),
         LAMBDA copy : Bind(SortAsc(copy), LAMBDA yearValues : Summary(yearValues, p, y)))

\* a loop that stops one year short of the horizon
MoreYearsShort(y, p) == y < p.years

\* the condition of the percentile loop
MoreYears(y, p) == y <= p.years

----------------------------------------------------------------------------
(* runMonteCarlo as a state machine *)

VARIABLES
    pc,           \* "idle", or the loop head the running call is at
    params,       \* the argument of the running call
    rng,          \* the call's generator
    totalByYear,  \* the (years + 1) * sims results buffer
    sim,          \* trial index
    yr,           \* year index of the year loop, then of the percentile loop
    riskyCorpus, safeRemain, w_annual, w_disc_adj,   \* the trial's state
    step,         \* the values computed by the last simulated year
    results,      \* the YearResult sequence under construction
    history,      \* the completed calls: argument and outcome, in order
    drawn,        \* the normal draws taken so far: call, trial, year, z1, z2
    writes        \* the writes to totalByYear so far: call, trial, cell index

\* generateProjections: its arguments, loop variables and rows
VARIABLES gkPc, gkArgs, year, portfolio, priorWithdrawal, rows

\* MonteCarloDashboard: its state, its ref and the browser's pending timers
VARIABLES mounted, uiParams, data, isSimulating, debounceRef, timers, nextTimer,
          changes, ran, callback

\* a SeededRandom of its own: its state words, those it was constructed with
\* and the number of next() calls made on it
VARIABLES generator, constructed, nextCalls

genVars == << generator, constructed, nextCalls >>

gkVars == << gkPc, gkArgs, year, portfolio, priorWithdrawal, rows >>

dashVars == << mounted, uiParams, data, isSimulating, debounceRef, timers,
               nextTimer, changes, ran, callback >>

simVars == << pc, params, rng, totalByYear, sim, yr, riskyCorpus, safeRemain,
              w_annual, w_disc_adj, step, results, history, drawn, writes >>

vars == << simVars, gkVars, dashVars, genVars >>

trialVars == << riskyCorpus, safeRemain, w_annual, w_disc_adj, step >>

NoStep ==
    [ r |-> 0, clippedInfl |-> 0, totalW |-> 0, grown |-> 0, safeGrown |-> 0,
      preClamp |-> 0, uniforms |-> 0, year |-> 0, terminal |-> FALSE ]

\* no SeededRandom constructed yet
NoGenerator ==
    /\ generator = << >>
    /\ constructed = << >>
    /\ nextCalls = 0

\* generateProjections not called yet
GKIdle ==
    /\ gkPc = "idle"
    /\ gkArgs = << >>
    /\ year = 0
    /\ portfolio = << 0 >>
    /\ priorWithdrawal = << 0 >>
    /\ rows = << >>

\* MonteCarloDashboard not mounted yet: useState and useRef initial values
Unmounted ==
    /\ mounted = FALSE
    /\ uiParams = 0
    /\ data = << >>
    /\ isSimulating = FALSE
    /\ debounceRef = << >>
    /\ timers = { }
    /\ nextTimer = 1
    /\ changes = 0
    /\ ran = << >>
    /\ callback = << >>

Init ==
    /\ pc = "idle"
    /\ params = Base
    /\ rng = [s0 |-> ZeroWord, s1 |-> ZeroWord]
    /\ totalByYear = << >>
    /\ sim = 0
    /\ yr = 0
    /\ riskyCorpus = 0
    /\ safeRemain = 0
    /\ w_annual = 0
    /\ w_disc_adj = 0
    /\ step = NoStep
    /\ results = << >>
    /\ history = << >>
    /\ drawn = << >>
    /\ writes = << >>
    /\ GKIdle
    /\ Unmounted
    /\ NoGenerator

\* the calls explored: one call with any configuration, or up to MaxCalls
\* calls with configurations of one of RepeatParams, DefaultSeedParams,
\* CutParams and DashParams
Callable(p) ==
    /\ Len(history) < MaxCalls
    /\ \/ history = << >>
       \/ \E family \in { RepeatParams, DefaultSeedParams, CutParams, DashParams } :
             /\ p \in family
             /\ \A i \in 1 .. Len(history) : history[i].params \in family

\* a generator made by the first call and shared by the later ones
SharedRng(p) == IF history = << >> THEN SeededRandom(p.randomSeed) ELSE rng

\* const rng = new SeededRandom(randomSeed)
CallRng(p) == SeededRandom(p.randomSeed)

\* runMonteCarlo(p) up to the trial loop; a negative buffer length throws
Call(p) ==
    /\ pc = "idle"
    /\ Callable(p)
    /\ IF (p.years + 1) * p.sims < 0
       THEN /\ history' = Append(history, [params |-> p, threw |-> TRUE,
                                           error |-> "RangeError",
                                           results |-> << >>])
            /\ UNCHANGED << pc, params, rng, totalByYear, sim, yr, results >>
       ELSE /\ pc' = "trial"
            /\ params' = p
            /\ rng' = CallRng(p)
            /\ totalByYear' = NewFloat64Array((p.years + 1) * p.sims)
            /\ sim' = 0
            /\ yr' = 0
            /\ results' = << >>
            /\ UNCHANGED history
    /\ UNCHANGED << trialVars, drawn, writes, gkVars, dashVars, genVars >>

SafeBucket(p) == p.safeBucketYears * p.w0

RiskyStart(p) == p.startCorpus - SafeBucket(p)

\* the risky corpus without the floor at 0
InitialRiskyUnclamped(p) == RiskyStart(p)

\* let riskyCorpus = Math.max(0, riskyStart)
InitialRisky(p) == Max(0, RiskyStart(p))

\* the reserve without the reserve-exceeds-corpus case
InitialSafeUnchecked(p) == SafeBucket(p)

InitialSafe(p) == IF RiskyStart(p) < 0 THEN p.startCorpus ELSE SafeBucket(p)

\* a trial loop whose discretionary level is set before the loop, not in it
BeginTrialKeepsCut ==
    /\ pc = "trial"
    /\ sim < params.sims
    /\ riskyCorpus' = InitialRisky(params)
    /\ safeRemain' = InitialSafe(params)
    /\ totalByYear' = Store(totalByYear, sim, InitialRisky(params) + InitialSafe(params))
    /\ w_annual' = params.w0
    /\ w_disc_adj' = (IF sim = 0 THEN params.discretionarySpend ELSE w_disc_adj)
    /\ yr' = 1
    /\ pc' = "year"
    /\ writes' = Append(writes, [call |-> Len(history) + 1, sim |-> sim, cell |-> sim])
    /\ UNCHANGED << params, rng, sim, step, results, history, drawn, gkVars, dashVars, genVars >>

\* the head of the trial loop with sim < sims: the trial's year 0
BeginTrial ==
    /\ pc = "trial"
    /\ sim < params.sims
    /\ riskyCorpus' = InitialRisky(params)
    /\ safeRemain' = InitialSafe(params)
    /\ totalByYear' = Store(totalByYear, sim, InitialRisky(params) + InitialSafe(params))
    /\ w_annual' = params.w0
    /\ w_disc_adj' = params.discretionarySpend
    /\ yr' = 1
    /\ pc' = "year"
    /\ writes' = Append(writes, [call |-> Len(history) + 1, sim |-> sim, cell |-> sim])
    /\ UNCHANGED << params, rng, sim, step, results, history, drawn, gkVars, dashVars, genVars >>

\* one pass of the year loop: simulate, record, and stop the trial when both
\* buckets are exactly 0
YearStep ==
    /\ pc = "year"
    /\ yr <= params.years
    /\ \E b \in { YearBody(params, [ riskyCorpus |-> riskyCorpus,
                                     safeRemain |-> safeRemain,
                                     w_annual |-> w_annual,
                                     w_disc_adj |-> w_disc_adj ], rng, yr) } :
       LET recorded == Store(totalByYear, yr * params.sims + sim,
                             b.riskyCorpus + b.safeRemain)
           stop == Terminal(b.riskyCorpus, b.safeRemain)
       IN  /\ rng' = b.rng
           /\ riskyCorpus' = b.riskyCorpus
           /\ safeRemain' = b.safeRemain
           /\ w_annual' = b.w_annual
           /\ w_disc_adj' = b.w_disc_adj
           /\ step' = [ r |-> b.r, clippedInfl |-> b.clippedInfl,
                        totalW |-> b.totalW, grown |-> b.grown,
                        safeGrown |-> b.safeGrown, preClamp |-> b.preClamp,
                        uniforms |-> b.uniforms, year |-> yr, terminal |-> stop ]
           /\ drawn' = Append(drawn, [ call |-> Len(history) + 1, sim |-> sim,
                                       year |-> yr, z1 |-> b.z1, z2 |-> b.z2 ])
           /\ writes' = writes
                 \o << [call |-> Len(history) + 1, sim |-> sim,
                        cell |-> yr * params.sims + sim] >>
                 \o (IF stop
                     THEN [ k \in DOMAIN FillCells(params, sim, yr + 1) |->
                              [call |-> Len(history) + 1, sim |-> sim,
                               cell |-> FillCells(params, sim, yr + 1)[k]] ]
                     ELSE << >>)
           /\ IF stop
              THEN /\ totalByYear' = FillZeros(recorded, params, sim, yr + 1)
                   /\ sim' = sim + 1
                   /\ pc' = "trial"
                   /\ yr' = yr
              ELSE /\ totalByYear' = recorded
                   /\ yr' = yr + 1
                   /\ UNCHANGED << sim, pc >>
    /\ UNCHANGED << params, results, history, gkVars, dashVars, genVars >>

\* the year loop ends at the horizon: next trial
EndTrial ==
    /\ pc = "year"
    /\ yr > params.years
    /\ sim' = sim + 1
    /\ pc' = "trial"
    /\ UNCHANGED << params, rng, totalByYear, yr, trialVars, results, history, drawn, writes,
                 gkVars, dashVars, genVars >>

\* the trial loop ends: on to the percentiles
TrialsDone ==
    /\ pc = "trial"
    /\ sim >= params.sims
    /\ pc' = "percentiles"
    /\ yr' = 0
    /\ UNCHANGED << params, rng, totalByYear, sim, trialVars, results, history, drawn, writes,
                 gkVars, dashVars, genVars >>

\* one pass of the percentile loop
PercentileYear ==
    /\ pc = "percentiles"
    /\ MoreYears(yr, params)
    /\ results' = Append(results, YearResult(totalByYear, params, yr))
    /\ yr' = yr + 1
    /\ UNCHANGED << pc, params, rng, totalByYear, sim, trialVars, history, drawn, writes,
                 gkVars, dashVars, genVars >>

\* return results
Return ==
    /\ pc = "percentiles"
    /\ ~ MoreYears(yr, params)
    /\ history' = Append(history, [params |-> params, threw |-> FALSE,
                                   error |-> "", results |-> results])
    /\ pc' = "idle"
    /\ UNCHANGED << params, rng, totalByYear, sim, yr, trialVars, results, drawn, writes,
                 gkVars, dashVars, genVars >>

Next ==
    \/ \E p \in AllParams : Call(p)
    \/ BeginTrial
    \/ YearStep
    \/ EndTrial
    \/ TrialsDone
    \/ PercentileYear
    \/ Return

Spec == Init /\ [][Next]_vars

----------------------------------------------------------------------------
(* MonteCarloDashboard: the debounced simulation *)

\* no timer is cancelled
ClearTimeoutNone(ts, ref) == ts

\* clearTimeout(debounceRef.current): the browser drops the timer with that id
ClearTimeout(ts, ref) == { t \in ts : << t.id >> # ref }

\* the cleanup returned by the effect
Cleanup(ts) == ClearTimeout(ts, debounceRef)

\* the effect on [params]: cancel, raise the flag, schedule the simulation of
\* p; ts are the pending timers it finds and n the change it answers
Effect(ts, p, n) ==
    /\ isSimulating' = TRUE
    /\ timers' = ClearTimeout(ts, debounceRef)
                    \cup { [id |-> nextTimer, params |-> p, change |-> n] }
    /\ debounceRef' = << nextTimer >>
    /\ nextTimer' = nextTimer + 1

\* the first render and its effect
Mount ==
    /\ ~ mounted /\ nextTimer = 1
    /\ mounted' = TRUE
    /\ uiParams' = DEFAULT_PARAMS
    /\ data' = << >>
    /\ Effect(timers, DEFAULT_PARAMS, changes)
    /\ UNCHANGED << changes, ran, callback, simVars, gkVars, genVars >>

\* handleParamChange(p): setParams, then the cleanup of the last effect and
\* the effect of the new render
ParamChange(p) ==
    /\ mounted /\ callback = << >>
    /\ changes < MaxChanges /\ Len(ran) < MaxCalls
    /\ uiParams' = p
    /\ changes' = changes + 1
    /\ Effect(Cleanup(timers), p, changes + 1)
    /\ UNCHANGED << mounted, data, ran, callback, simVars, gkVars, genVars >>

\* the browser fires a pending timer: its callback starts
TimerFire ==
    /\ callback = << >>
    /\ \E t \in timers :
          /\ timers' = timers \ { t }
          /\ callback' = << t >>
          /\ ran' = Append(ran, t)
    /\ UNCHANGED << mounted, uiParams, data, isSimulating, debounceRef, nextTimer,
                    changes, simVars, gkVars, genVars >>

\* const results = runMonteCarlo(params), with the params the callback closed over
RunCall ==
    /\ callback # << >> /\ Len(ran) > Len(history)
    /\ Call(callback[1].params)

\* the steps of runMonteCarlo inside the callback
RunSteps ==
    /\ callback # << >>
    /\ (BeginTrial \/ YearStep \/ EndTrial \/ TrialsDone \/ PercentileYear \/ Return)

\* setData(results); setIsSimulating(false)
Deliver ==
    /\ callback # << >> /\ pc = "idle" /\ Len(ran) = Len(history)
    /\ callback' = << >>
    /\ IF mounted
       THEN /\ data' = history[Len(history)].results
            /\ isSimulating' = FALSE
       ELSE UNCHANGED << data, isSimulating >>
    /\ UNCHANGED << mounted, uiParams, debounceRef, timers, nextTimer, changes, ran,
                    simVars, gkVars, genVars >>

\* the component unmounts: the cleanup of the last effect
Unmount ==
    /\ mounted /\ callback = << >>
    /\ mounted' = FALSE
    /\ timers' = Cleanup(timers)
    /\ UNCHANGED << uiParams, data, isSimulating, debounceRef, nextTimer, changes,
                    ran, callback, simVars, gkVars, genVars >>

DashNext ==
    \/ Mount
    \/ \E p \in DashParams : ParamChange(p)
    \/ TimerFire
    \/ RunCall
    \/ RunSteps
    \/ Deliver
    \/ Unmount

\* the event loop runs a due timer, and a callback runs to completion
DashSpec ==
    /\ Init /\ [][DashNext]_vars
    /\ WF_vars(TimerFire) /\ WF_vars(RunCall) /\ WF_vars(RunSteps) /\ WF_vars(Deliver)

----------------------------------------------------------------------------
(* generateProjections and calculateGKRule; money in units of a lakh *)

MaxProjectionYears == 2

\* NaN; a number that may be NaN is << v >> or << >>
NaN == << >>

\* a number that may be NaN or infinite: v is the value, or the sign
Num(v) == [k |-> "num", v |-> v]
Inf(sign) == [k |-> "inf", v |-> sign]
NotANumber == [k |-> "nan", v |-> 0]

\* Math.random(): exactly 0, or a value of (0, 1) in the first or the fourth
\* of the eight cells of Radius and Cosine
RandomValues == { 0, 1, 4 }

\* Math.cos(2 * Math.PI * u2) in hundredths: cos(0) is 1
CosineAt(u2) == IF u2 = 0 THEN Scale ELSE Cosine[u2]

Sign(x) == IF x > 0 THEN 1 ELSE IF x < 0 THEN 0 - 1 ELSE 0

\* normalRandom(mean, std) from the two values of Math.random(): u1 = 0 makes
\* Math.log(u1) -Infinity and z infinite, and 0 * Infinity is NaN
NormalRandom(u1, u2, mean, std) ==
    IF u1 = 0
    THEN IF std = 0 THEN NotANumber ELSE Inf(Sign(CosineAt(u2)) * Sign(std))
    ELSE Num(mean + RoundDiv(RoundDiv(Radius[u1] * CosineAt(u2), Scale) * std, Scale))

\* Math.max(lo, Math.min(hi, x)): NaN goes through both
MathClamp(lo, hi, x) ==
    CASE x.k = "nan" -> NaN
      [] x.k = "inf" -> IF x.v > 0 THEN << hi >> ELSE << lo >>
      [] OTHER       -> << Max(lo, Min(hi, x.v)) >>

\* the clamps of the simulated return and inflation, in hundredths
ReturnFloor == 0 - 50
ReturnCap == 50
InflationLow == 2
InflationCap == 20

\* x * (1 + a) with a in hundredths
TimesNaN(x, a) == IF x = NaN \/ a = NaN THEN NaN ELSE << Grow(x[1], a[1]) >>

\* x - y
MinusNaN(x, y) == IF x = NaN \/ y = NaN THEN NaN ELSE << x[1] - y[1] >>

\* Math.max(0, x)
MathMax0(x) == IF x = NaN THEN NaN ELSE << Max(0, x[1]) >>

\* (currentPortfolio - startPortfolio) / startPortfolio in hundredths
PortfolioChange(start, current) ==
    IF start = NaN \/ current = NaN THEN NotANumber
    ELSE IF start[1] = 0
         THEN IF current[1] = 0 THEN NotANumber ELSE Inf(Sign(current[1]))
         ELSE IF start[1] > 0
              THEN Num(RoundDiv((current[1] - start[1]) * Scale, start[1]))
              ELSE Num(RoundDiv((start[1] - current[1]) * Scale, 0 - start[1]))

\* x > t and x < t for a threshold t in hundredths
Above(x, t) == (x.k = "inf" /\ x.v > 0) \/ (x.k = "num" /\ x.v > t)
Below(x, t) == (x.k = "inf" /\ x.v < 0) \/ (x.k = "num" /\ x.v < t)

\* calculateGKRule(p): the rule and the withdrawal it allows
CalculateGKRule(p) ==
    LET portfolioChange == PortfolioChange(p.startPortfolio, p.currentPortfolio)
        inflationAdjusted == TimesNaN(p.priorWithdrawal, p.inflation)
    IN  IF Above(portfolioChange, p.increaseThreshold)
        THEN [ rule |-> "Inflation+Increase",
               allowedWithdrawal |-> TimesNaN(inflationAdjusted, << p.increaseAmount >>) ]
        ELSE IF Below(portfolioChange, 0 - p.decreaseThreshold)
        THEN [ rule |-> "DecreaseRequired",
               allowedWithdrawal |-> TimesNaN(p.priorWithdrawal,
                                              << 0 - p.decreaseAmount >>) ]
        ELSE [ rule |-> "InflationOnly", allowedWithdrawal |-> inflationAdjusted ]

\* the GKParams of the calculator's first render
GKBase ==
    [ startPortfolio |-> 1000, currentPortfolio |-> 1050, priorWithdrawal |-> 40,
      inflation |-> 7, increaseThreshold |-> 5, decreaseThreshold |-> 5,
      increaseAmount |-> 5, decreaseAmount |-> 10 ]

\* the calls of generateProjections explored
GKCalls ==
    { [ params |-> p, years |-> y, meanReturn |-> 11, returnStdDev |-> 15,
        inflationStdDev |-> sd ] :
        p \in { GKBase, [GKBase EXCEPT !.priorWithdrawal = 700],
                [GKBase EXCEPT !.startPortfolio = 0] },
        y \in 0 .. MaxProjectionYears, sd \in { 0, 3 } }

\* one pass of the year loop: the row pushed
ProjectionRow(a, y, startOfYear, prior, u1, u2, u3, u4) ==
    LET nominalReturn ==
            MathClamp(ReturnFloor, ReturnCap,
                      NormalRandom(u1, u2, a.meanReturn, a.returnStdDev))
        yearInflation ==
            MathClamp(InflationLow, InflationCap,
                      NormalRandom(u3, u4, a.params.inflation, a.inflationStdDev))
        portfolioAfterReturn == TimesNaN(startOfYear, nominalReturn)
        gkResult == CalculateGKRule([ a.params EXCEPT
                                        !.startPortfolio = startOfYear,
                                        !.currentPortfolio = portfolioAfterReturn,
                                        !.priorWithdrawal = prior,
                                        !.inflation = yearInflation ])
        endPortfolio == MinusNaN(portfolioAfterReturn, gkResult.allowedWithdrawal)
    IN  [ year |-> y, startPortfolio |-> startOfYear,
          nominalReturn |-> nominalReturn, inflation |-> yearInflation,
          priorWithdrawal |-> prior,
          inflationProposal |-> TimesNaN(prior, yearInflation),
          rule |-> gkResult.rule, finalWithdrawal |-> gkResult.allowedWithdrawal,
          endPortfolio |-> MathMax0(endPortfolio) ]

\* generateProjections(params, years, meanReturn, returnStdDev, inflationStdDev)
\* up to the year loop
GenerateProjections(a) ==
    /\ gkPc = "idle"
    /\ gkPc' = "loop"
    /\ gkArgs' = << a >>
    /\ rows' = << >>
    /\ portfolio' = << a.params.startPortfolio >>
    /\ priorWithdrawal' = << a.params.priorWithdrawal >>
    /\ year' = 1
    /\ UNCHANGED << simVars, dashVars, genVars >>

\* one year of the loop; portfolio <= 0 is false for NaN
ProjectionYear ==
    /\ gkPc = "loop" /\ year <= gkArgs[1].years
    /\ \E u1, u2, u3, u4 \in RandomValues :
         \E row \in { ProjectionRow(gkArgs[1], year, portfolio, priorWithdrawal,
                                     u1, u2, u3, u4) } :
            /\ rows' = Append(rows, row)
            /\ portfolio' = row.endPortfolio
            /\ priorWithdrawal' = row.finalWithdrawal
            /\ IF row.endPortfolio # NaN /\ row.endPortfolio[1] <= 0
               THEN gkPc' = "done" /\ year' = year
               ELSE gkPc' = "loop" /\ year' = year + 1
    /\ UNCHANGED << gkArgs, simVars, dashVars, genVars >>

\* the loop ends at the horizon: return rows
ProjectionsReturn ==
    /\ gkPc = "loop" /\ year > gkArgs[1].years
    /\ gkPc' = "done"
    /\ UNCHANGED << gkArgs, year, portfolio, priorWithdrawal, rows, simVars, dashVars, genVars >>

GKNext ==
    \/ \E a \in GKCalls : GenerateProjections(a)
    \/ ProjectionYear
    \/ ProjectionsReturn

GKSpec == Init /\ [][GKNext]_vars

----------------------------------------------------------------------------
(* SeededRandom on its own: the orbit of its state under next() *)

MaxNextCalls == 8200

\* the seeds whose orbits are followed
OrbitSeeds == { NoSeed, << 1 >> }

\* new SeededRandom(seed)
Construct(seed) ==
    /\ generator = << >>
    /\ generator' = << SeededRandom(seed) >>
    /\ constructed' = generator'
    /\ nextCalls' = 0
    /\ UNCHANGED << simVars, gkVars, dashVars >>

\* one call of next()
NextCall ==
    /\ generator # << >> /\ nextCalls < MaxNextCalls
    /\ generator' = << NextState(generator[1]) >>
    /\ nextCalls' = nextCalls + 1
    /\ UNCHANGED << constructed, simVars, gkVars, dashVars >>

GenNext ==
    \/ \E seed \in OrbitSeeds : Construct(seed)
    \/ NextCall

GenSpec == Init /\ [][GenNext]_vars

----------------------------------------------------------------------------
(* Properties *)

\* the calls that ran the trial loop over a buffer: sims >= 1 and years >= 0
Simulates(p) == p.sims >= 1 /\ p.years >= 0

Returned == { i \in 1 .. Len(history) : ~ history[i].threw }

\* totalByYear[y * sims + s] of the call in progress or last returned
Recorded(y, s) == totalByYear[y * params.sims + s + 1]

\* a rate n / d equal to the percentage pct
RateIs(rate, pct) == rate.den # 0 /\ rate.num = pct * rate.den

(* C1: two calls of runMonteCarlo with the same configuration and seed     *)
(* have the same outcome, whatever calls were made before or between them. *)
C1_Deterministic ==
    \A i, j \in 1 .. Len(history) :
        history[i].params = history[j].params => history[i] = history[j]

\* a call repeated after a call with another configuration or seed
C1_Witness ==
    /\ Len(history) >= 3
    /\ history[1].params = history[3].params
    /\ history[2].params # history[1].params
    /\ history[2].results # history[1].results
    /\ history[1].results # << >>

(* C2: the year-0 step of a trial consumes no draw and records startCorpus, *)
(* so the year-0 summary of a run with sims >= 1 has p10 = p50 = p90 =      *)
(* startCorpus, and a success rate of 100 when startCorpus > 1.             *)
C2_YearZero ==
    /\ [][(pc = "trial" /\ pc' = "year" /\ Simulates(params))
            => (rng' = rng /\ totalByYear'[sim + 1] = params.startCorpus)]_vars
    /\ [](\A i \in Returned :
            Simulates(history[i].params) =>
                LET first == history[i].results[1]
                    start == history[i].params.startCorpus
                IN  /\ first.p10 = << start >>
                    /\ first.p50 = << start >>
                    /\ first.p90 = << start >>
                    /\ start > 1 => RateIs(first.successRate, 100))

\* the year 0 of a trial that follows a trial which consumed draws
C2_Witness ==
    /\ pc = "year" /\ yr = 1 /\ sim >= 1 /\ params.years >= 1
    /\ step.uniforms >= 4
    /\ params.startCorpus > 1
    /\ Recorded(0, sim) = params.startCorpus
    /\ params.safeBucketYears * params.w0 > params.startCorpus

(* C3: at every record point of every trial the risky corpus and the safe  *)
(* reserve are >= 0, and every value in the results buffer is >= 0.        *)
C3_NonNegative ==
    /\ riskyCorpus >= 0
    /\ safeRemain >= 0
    /\ \A i \in 1 .. Len(totalByYear) : totalByYear[i] >= 0

\* a recorded year in which the withdrawal exceeded the risky corpus while the
\* reserve kept a balance
C3_Witness ==
    /\ pc \in { "year", "trial" }
    /\ step.year >= 1
    /\ step.preClamp < 0
    /\ riskyCorpus = 0
    /\ safeRemain > 0
    /\ Recorded(step.year, IF step.terminal THEN sim - 1 ELSE sim) = safeRemain

(* C4: once the value recorded for a trial is 0 in a year, the value       *)
(* recorded for that trial is 0 in every later year.                        *)
C4_DepletionMonotone ==
    \A i, j \in 1 .. Len(totalByYear) :
        (i < j /\ (j - i) % params.sims = 0 /\ totalByYear[i] = 0)
            => totalByYear[j] = 0

\* a finished trial that was worth something in year 1, depleted in year 2 and
\* has a year after that
C4_Witness ==
    /\ pc = "percentiles"
    /\ params.years >= 3
    /\ params.startCorpus >= params.w0 /\ params.w0 > 0
    /\ \E s \in 0 .. params.sims - 1 :
          /\ Recorded(1, s) > 0
          /\ Recorded(2, s) = 0
          /\ Recorded(3, s) = 0

(* The same run with the year loop continued to the horizon: the loop body  *)
(* of runMonteCarlo without the early-termination block. A state st is the  *)
(* trial state with the generator and the buffer.                          *)
ContinueYear(p, st, y, s) ==
    Bind(YearBody(p, st, st.rng, y),
         LAMBDA b : [ riskyCorpus |-> b.riskyCorpus, safeRemain |-> b.safeRemain,
                      w_annual |-> b.w_annual, w_disc_adj |-> b.w_disc_adj,
                      rng |-> b.rng,
                      buf |-> Store(st.buf, y * p.sims + s,
                                    b.riskyCorpus + b.safeRemain) ])

RECURSIVE ContinueTrial(_, _, _, _)
ContinueTrial(p, st, y, s) ==
    IF y > p.years THEN st
    ELSE Bind(ContinueYear(p, st, y, s), LAMBDA st2 : ContinueTrial(p, st2, y + 1, s))

ContinueBegin(p, g, buf, s) ==
    [ riskyCorpus |-> InitialRisky(p), safeRemain |-> InitialSafe(p),
      w_annual |-> p.w0, w_disc_adj |-> p.discretionarySpend, rng |-> g,
      buf |-> Store(buf, s, InitialRisky(p) + InitialSafe(p)) ]

RECURSIVE ContinueTrials(_, _, _, _)
ContinueTrials(p, g, buf, s) ==
    IF s >= p.sims THEN buf
    ELSE Bind(ContinueTrial(p, ContinueBegin(p, g, buf, s), 1, s),
              LAMBDA st : ContinueTrials(p, st.rng, st.buf, s + 1))

ContinuedBuffer(p) ==
    ContinueTrials(p, SeededRandom(p.randomSeed),
                   NewFloat64Array((p.years + 1) * p.sims), 0)

ContinuedResults(p) ==
    Bind(ContinuedBuffer(p),
         LAMBDA buf : [ i \in 1 .. p.years + 1 |-> YearResult(buf, p, i - 1) ])

(* C5: the summaries a call returns are those of the same run with every   *)
(* trial advanced year by year to the horizon (early termination changes   *)
(* nothing in the output).                                                 *)
C5_EarlyExitIsOptimization ==
    (pc = "idle" /\ history # << >>) =>
        LET last == history[Len(history)]
        IN  (~ last.threw /\ Simulates(last.params))
                => last.results = ContinuedResults(last.params)

(* C5 for the trial that stops: the cells of a stopped trial are the cells *)
(* it would have recorded by continuing.                                   *)
C5_OwnCellsUnchanged ==
    (pc = "trial" /\ step.terminal /\ sim = 1 /\ Simulates(params)) =>
        \A y \in 0 .. params.years :
            Recorded(y, 0) = ContinuedBuffer(params)[y * params.sims + 1]

\* the values recorded for year y, in trial order
Slice(y) == [s \in 0 .. params.sims - 1 |-> Recorded(y, s)]

\* v has rank k in year y's values: k of them sorted ascending sit before it
HasRank(v, y, k) ==
    /\ \E s \in 0 .. params.sims - 1 : Recorded(y, s) = v
    /\ Cardinality({ s \in 0 .. params.sims - 1 : Recorded(y, s) < v }) <= k
    /\ Cardinality({ s \in 0 .. params.sims - 1 : Recorded(y, s) <= v }) > k

(* C6: in every summary of a run with sims >= 1, p10 <= p50 <= p90.        *)
C6_MonotonePercentiles ==
    \A i \in 1 .. Len(results) :
        params.sims >= 1 =>
            /\ results[i].p10[1] <= results[i].p50[1]
            /\ results[i].p50[1] <= results[i].p90[1]

\* a year whose three percentiles differ while the trials were not recorded
\* in ascending order
C6_Witness ==
    /\ params.sims >= 3
    /\ \E i \in 1 .. Len(results) :
          /\ results[i].p10[1] < results[i].p50[1]
          /\ results[i].p50[1] < results[i].p90[1]
          /\ Recorded(i - 1, 0) > Recorded(i - 1, 1)

(* C7: a call that returns, returns years + 1 summaries, the summary at    *)
(* 0-based position i carrying year index i.                               *)
C7_OutputShape ==
    \A h \in Returned :
        /\ Len(history[h].results) = history[h].params.years + 1
        /\ \A i \in 1 .. Len(history[h].results) :
              history[h].results[i].year = i - 1

\* a returned run over a horizon of at least two years
C7_Witness ==
    \E h \in Returned :
        /\ history[h].params.years >= 2
        /\ history[h].params.sims >= 1
        /\ Len(history[h].results) = history[h].params.years + 1

(* C8: in every summary of a run with sims >= 1, p10, p50 and p90 are the  *)
(* values of rank floor(sims / 10), floor(sims / 2) and floor(9 sims / 10) *)
(* of the year's trial values in ascending numeric order, and these ranks  *)
(* lie in 0 .. sims - 1.                                                   *)
C8_NearestRank ==
    \A i \in 1 .. Len(results) :
        params.sims >= 1 =>
            /\ HasRank(results[i].p10[1], i - 1, params.sims \div 10)
            /\ HasRank(results[i].p50[1], i - 1, params.sims \div 2)
            /\ HasRank(results[i].p90[1], i - 1, (9 * params.sims) \div 10)
            /\ (9 * params.sims) \div 10 <= params.sims - 1

\* a year of three trials with three different values: p90 is the largest
C8_Witness ==
    /\ params.sims = 3
    /\ \E i \in 1 .. Len(results) :
          /\ Cardinality({ Recorded(i - 1, s) : s \in 0 .. 2 }) = 3
          /\ \A s \in 0 .. 2 : Recorded(i - 1, s) <= results[i].p90[1]
          /\ \A s \in 0 .. 2 : Recorded(i - 1, s) >= results[i].p10[1]

Invalid(p) == p.sims <= 0 \/ p.years <= 0

(* C10: a call with a non-positive trial count or horizon does not return  *)
(* a summary sequence: it fails (any thrown error counts as the rejection). *)
C10_RejectsInvalid ==
    \A i \in 1 .. Len(history) : Invalid(history[i].params) => history[i].threw

\* a configuration whose reserve, safeBucketYears * w0, exceeds the corpus
ReserveExceedsCorpus(p) == p.safeBucketYears * p.w0 > p.startCorpus

(* C11: when safeBucketYears * w0 > startCorpus, every trial starts with a  *)
(* risky corpus of 0 and a safe reserve of startCorpus, and the value it    *)
(* records for year 0 is startCorpus.                                       *)
C11_ReserveExceedsCorpus ==
    [][(pc = "trial" /\ pc' = "year" /\ Simulates(params)
          /\ ReserveExceedsCorpus(params))
         => /\ riskyCorpus' = 0
            /\ safeRemain' = params.startCorpus
            /\ totalByYear'[sim + 1] = params.startCorpus]_vars

\* the second trial of such a run starts after the first one spent from the
\* reserve
C11_Witness ==
    /\ pc = "year" /\ yr = 1 /\ sim >= 1
    /\ ReserveExceedsCorpus(params)
    /\ params.startCorpus > 0
    /\ step.year >= 1 /\ step.totalW > 0
    /\ riskyCorpus = 0
    /\ safeRemain = params.startCorpus
    /\ Recorded(0, sim) = params.startCorpus

(* C12: a call whose configuration carries no random seed runs on the       *)
(* generator of seed 12345, and returns what the same configuration with    *)
(* randomSeed = 12345 returns, on every call.                               *)
C12_DefaultSeed ==
    /\ [][(pc = "idle" /\ pc' = "trial" /\ params'.randomSeed = NoSeed)
            => rng' = SeededRandom(<< 12345 >>)]_vars
    /\ [](\A i, j \in Returned :
            (/\ history[i].params.randomSeed = NoSeed
             /\ history[j].params = [history[i].params EXCEPT !.randomSeed = << 12345 >>])
                => history[i].results = history[j].results)

\* calls without a seed before and after a call with seed 12345, in a run
\* whose last year depends on the draws
C12_Witness ==
    /\ Len(history) >= 3
    /\ history[1].params.randomSeed = NoSeed
    /\ history[2].params = [history[1].params EXCEPT !.randomSeed = << 12345 >>]
    /\ history[3].params = history[1].params
    /\ history[1].results = history[2].results
    /\ history[3].results = history[2].results
    /\ LET last == history[1].results[Len(history[1].results)]
       IN  last.p10 # last.p90

\* the draws logged for the call in progress
IsCurrent(d) == d.call = Len(history) + 1

DrawnNow == SelectSeq(drawn, IsCurrent)

\* the last year trial s simulated: the first year it recorded 0, else years
LastYear(s) ==
    LET zeros == { y \in 1 .. params.years : Recorded(y, s) = 0 }
    IN  IF zeros = { } THEN params.years
        ELSE CHOOSE y \in zeros : \A z \in zeros : y <= z

\* the trial-years that were simulated
SimulatedYears ==
    { << s, y >> \in (0 .. params.sims - 1) \X (1 .. params.years) : y <= LastYear(s) }

\* trial-major order, years ascending within a trial
Before(d, e) == d.sim < e.sim \/ (d.sim = e.sim /\ d.year < e.year)

(* C13: the generator of a call advances only in a simulated year of a      *)
(* trial, by exactly two normal draws, the first being the return shock z1  *)
(* and the second the inflation shock z2; the trial-years that draw are the *)
(* simulated ones (year 0 and the years after an early termination draw     *)
(* nothing), in trial-major order with years ascending within a trial.      *)
C13_DrawOrder ==
    /\ [][(pc # "idle" /\ rng' # rng) =>
            /\ pc = "year" /\ yr >= 1 /\ yr <= params.years
            /\ \E n1 \in { NextNormal(rng, 0, Scale) } :
               \E n2 \in { NextNormal(n1.rng, 0, Scale) } :
                  /\ rng' = n2.rng
                  /\ step'.r = AnnualReturn(params, n1.z)
                  /\ step'.clippedInfl = ClipInfl(AnnualInfl(params, n1.z, n2.z))
                  /\ drawn' = Append(drawn, [ call |-> Len(history) + 1, sim |-> sim,
                                              year |-> yr, z1 |-> n1.z, z2 |-> n2.z ])]_vars
    /\ []((pc = "percentiles" /\ Simulates(params)) =>
            /\ Len(DrawnNow) = Cardinality(SimulatedYears)
            /\ \A k \in 1 .. Len(DrawnNow) :
                  << DrawnNow[k].sim, DrawnNow[k].year >> \in SimulatedYears
            /\ \A k, l \in 1 .. Len(DrawnNow) :
                  k < l => Before(DrawnNow[k], DrawnNow[l]))

\* a finished run of three trials in which a trial stopped before the horizon
\* and the trial after it drew in every year, the two shocks of a year differing
C13_Witness ==
    /\ pc = "percentiles"
    /\ params.sims >= 3 /\ params.years >= 3
    /\ \E s \in 0 .. params.sims - 2 :
          /\ LastYear(s) < params.years
          /\ Recorded(params.years, s + 1) > 0
    /\ \E k \in 1 .. Len(DrawnNow) : DrawnNow[k].z1 # DrawnNow[k].z2

ZeroVolatility(p) == p.stdR = 0 /\ p.inflationSD = 0

\* x times (1 + a / 100), and x times (1 + a / 100)(1 - b / 100), to the unit
Times(x, a) == RoundDiv(x * (100 + a), 100)

TimesBoth(x, a, b) == RoundDiv(x * ((100 + a) * (100 - b)), 100 * 100)

(* The deterministic recurrence of a configuration: year y from year y - 1  *)
(* with return meanR and inflation `inflation`: grow risky, compound the    *)
(* reserve, update spending, cut if meanR < 0, withdraw by policy, floor.   *)
DetYear(p, t, y) ==
    LET infl   == IF p.inflation < 0 - 99 THEN 0 - 99 ELSE p.inflation
        risky1 == Times(t.risky, p.meanR)
        safe1  == IF t.safe > 0 /\ p.reserveR > 0 THEN Times(t.safe, p.reserveR)
                  ELSE t.safe
        spend  == IF y = 1 THEN t.spend
                  ELSE IF y <= p.taperStartYear THEN Times(t.spend, infl)
                  ELSE TimesBoth(t.spend, infl, p.taper)
        disc0  == IF y = 1 THEN t.disc
                  ELSE IF y <= p.taperStartYear THEN Times(t.disc, infl)
                  ELSE TimesBoth(t.disc, infl, p.taper)
        disc   == IF p.meanR < 0 THEN Times(disc0, 0 - p.cutPct) ELSE disc0
        w      == (IF spend > disc THEN spend - disc ELSE 0) + disc
        first  == /\ safe1 > 0
                  /\ IF p.useFirstNYearsReserve THEN y <= p.safeBucketYears
                     ELSE p.meanR < 0
        risky2 == IF first THEN (IF safe1 >= w THEN risky1 ELSE risky1 - (w - safe1))
                  ELSE risky1 - w
        safe2  == IF first THEN (IF safe1 >= w THEN safe1 - w ELSE 0) ELSE safe1
    IN  [ risky |-> IF risky2 < 0 THEN 0 ELSE risky2, safe |-> safe2,
          spend |-> spend, disc |-> disc ]

RECURSIVE DetState(_, _)
DetState(p, y) ==
    IF y = 0
    THEN LET reserve == p.safeBucketYears * p.w0
         IN  [ risky |-> IF reserve > p.startCorpus THEN 0 ELSE p.startCorpus - reserve,
               safe |-> IF reserve > p.startCorpus THEN p.startCorpus ELSE reserve,
               spend |-> p.w0, disc |-> p.discretionarySpend ]
    ELSE Bind(DetState(p, y - 1), LAMBDA t : DetYear(p, t, y))

DetValue(p, y) == Bind(DetState(p, y), LAMBDA t : t.risky + t.safe)

(* C14: with stdR = 0 and inflationSD = 0 every simulated year uses the     *)
(* return meanR and the inflation `inflation`, every trial records in every *)
(* year the value of the deterministic recurrence, and p10 = p50 = p90 =    *)
(* that value in every summary, whatever the seed.                          *)
C14_ZeroVolatility ==
    /\ (pc \in { "year", "trial" } /\ step.year >= 1 /\ drawn # << >>
          /\ drawn[Len(drawn)].call = Len(history) + 1 /\ ZeroVolatility(params))
         => (step.r = params.meanR /\ step.clippedInfl = params.inflation)
    /\ (pc = "percentiles" /\ Simulates(params) /\ ZeroVolatility(params))
         => \A y \in 0 .. params.years : \A s \in 0 .. params.sims - 1 :
               Recorded(y, s) = DetValue(params, y)
    /\ \A i \in Returned :
          (Simulates(history[i].params) /\ ZeroVolatility(history[i].params))
             => \A y \in 0 .. history[i].params.years :
                   LET v == << DetValue(history[i].params, y) >>
                       res == history[i].results[y + 1]
                   IN  res.p10 = v /\ res.p50 = v /\ res.p90 = v

\* a returned run with a seed, a loss every year, three trials whose draws
\* differ, a reserve used up on the way and a value that still moves at the end
C14_Witness ==
    /\ pc = "idle" /\ Len(history) = 1
    /\ LET p == history[1].params
           res == history[1].results
       IN  /\ ZeroVolatility(p) /\ p.meanR < 0 /\ p.randomSeed = << 2 >>
           /\ p.sims >= 3 /\ p.years >= 3
           /\ res[4].p10 = res[4].p90
           /\ res[4].p50[1] > 0
           /\ res[4].p50 # res[3].p50
           /\ \E k, l \in 1 .. Len(drawn) :
                 /\ drawn[k].year = drawn[l].year
                 /\ drawn[k].z1 # drawn[l].z1
                 /\ drawn[k].z2 # drawn[l].z2

\* a pass of the year loop that simulates year yr
SimulatesYear == pc = "year" /\ yr <= params.years

(* The withdrawal w of the step just taken was drawn from the reserve res   *)
(* first, the part of it above res from the risky corpus.                   *)
ReserveFirst(res, w) ==
    IF res >= w
    THEN safeRemain' = res - w /\ step'.preClamp = step'.grown
    ELSE safeRemain' = 0 /\ step'.preClamp = step'.grown - (w - res)

\* the withdrawal w of the step just taken was drawn from the risky corpus only
RiskyOnly(res, w) == safeRemain' = res /\ step'.preClamp = step'.grown - w

(* C15: with useFirstNYearsReserve = true, in a year y <= safeBucketYears   *)
(* with a reserve > 0 the withdrawal comes from the reserve first (reserve  *)
(* >= W: reserve less W, risky not debited; else reserve 0 and risky        *)
(* debited W less the old reserve); in every other year W is debited from   *)
(* the risky corpus alone. A loss year changes nothing in that choice.      *)
C15_FirstYearsReserve ==
    [][(SimulatesYear /\ params.useFirstNYearsReserve) =>
          IF yr <= params.safeBucketYears /\ step'.safeGrown > 0
          THEN ReserveFirst(step'.safeGrown, step'.totalW)
          ELSE RiskyOnly(step'.safeGrown, step'.totalW)]_vars

\* a year of the window whose withdrawal used up the reserve and took the rest
\* from a risky corpus that could carry it, in a year that was not a loss
C15_Witness ==
    /\ pc = "year" /\ params.useFirstNYearsReserve
    /\ step.year >= 2 /\ step.year <= params.safeBucketYears /\ yr = step.year + 1
    /\ step.safeGrown > 0 /\ step.safeGrown < step.totalW
    /\ safeRemain = 0
    /\ step.preClamp = step.grown - (step.totalW - step.safeGrown)
    /\ riskyCorpus = step.preClamp /\ riskyCorpus > 0
    /\ step.r >= 0

(* C16: with useFirstNYearsReserve = false, in a year whose raw return is   *)
(* < 0 with a reserve > 0 the withdrawal comes from the reserve first, with *)
(* the same overflow rule; in every other year W is debited from the risky  *)
(* corpus alone. The year number and safeBucketYears change nothing.        *)
C16_LossYearReserve ==
    [][(SimulatesYear /\ ~ params.useFirstNYearsReserve) =>
          IF step'.r < 0 /\ step'.safeGrown > 0
          THEN ReserveFirst(step'.safeGrown, step'.totalW)
          ELSE RiskyOnly(step'.safeGrown, step'.totalW)]_vars

\* a loss year after the first safeBucketYears years whose withdrawal the
\* reserve carried alone
C16_Witness ==
    /\ pc = "year" /\ ~ params.useFirstNYearsReserve
    /\ step.year > params.safeBucketYears /\ yr = step.year + 1
    /\ step.r < 0
    /\ step.totalW > 0 /\ step.safeGrown >= step.totalW
    /\ safeRemain = step.safeGrown - step.totalW
    /\ step.preClamp = step.grown /\ riskyCorpus = step.grown /\ riskyCorpus > 0

\* the clipped inflation of year y of the trial in progress, from its draws
TrialInfl(y) ==
    LET d == CHOOSE k \in 1 .. Len(DrawnNow) :
                 DrawnNow[k].sim = sim /\ DrawnNow[k].year = y
    IN  ClipInfl(AnnualInfl(params, DrawnNow[d].z1, DrawnNow[d].z2))

\* the level w after the factor of year y >= 2 with clipped inflation ci
YearFactor(w, y, ci) ==
    IF y <= params.taperStartYear THEN Times(w, ci)
    ELSE TimesBoth(w, ci, params.taper)

\* base times the factors of years 2 .. y of the trial in progress
RECURSIVE LevelAt(_, _)
LevelAt(base, y) ==
    IF y <= 1 THEN base
    ELSE Bind(LevelAt(base, y - 1), LAMBDA w : YearFactor(w, y, TrialInfl(y)))

\* the number of years among 2 .. y that carry a taper factor
TaperFactors(y) == Cardinality({ k \in 2 .. y : k > params.taperStartYear })

(* C17: year 1 applies no inflation or taper factor; every year y >= 2      *)
(* multiplies the previous year's spending level, and the previous year's   *)
(* discretionary level, by (1 + clipped inflation) when y <= taperStartYear *)
(* and by (1 + clipped inflation)(1 - taper) when y > taperStartYear; so    *)
(* the spending level of year y is w0 times the factors of years 2 .. y,    *)
(* with max(0, y - max(taperStartYear, 1)) taper factors among them.        *)
C17_CumulativeSpending ==
    /\ [][SimulatesYear =>
            /\ w_annual' = (IF yr = 1 THEN w_annual
                            ELSE YearFactor(w_annual, yr, step'.clippedInfl))
            /\ step'.r >= 0 =>
                  w_disc_adj' = (IF yr = 1 THEN w_disc_adj
                                 ELSE YearFactor(w_disc_adj, yr, step'.clippedInfl))]_vars
    /\ []((pc = "year" /\ yr >= 2) =>
            /\ w_annual = LevelAt(params.w0, yr - 1)
            /\ TaperFactors(yr - 1)
                  = Max(0, (yr - 1) - Max(params.taperStartYear, 1)))

\* a second trial after its year 3, the first year past the taper start, with
\* different inflations in years 2 and 3 and a level that moved each year
C17_Witness ==
    /\ pc = "year" /\ yr = 4 /\ sim >= 1
    /\ params.taperStartYear = 2 /\ params.taper > 0
    /\ TrialInfl(2) # TrialInfl(3)
    /\ LevelAt(params.w0, 2) # params.w0
    /\ w_annual # LevelAt(params.w0, 2)
    /\ w_annual = TimesBoth(Times(params.w0, TrialInfl(2)), TrialInfl(3), params.taper)
    /\ TaperFactors(3) = 1

\* the raw return of year y of the trial in progress, from its draws
TrialReturn(y) ==
    LET d == CHOOSE k \in 1 .. Len(DrawnNow) :
                 DrawnNow[k].sim = sim /\ DrawnNow[k].year = y
    IN  AnnualReturn(params, DrawnNow[d].z1)

\* the loss years among years 1 .. y of the trial in progress
LossYears(y) == { k \in 1 .. y : TrialReturn(k) < 0 }

\* d after n cuts
RECURSIVE CutTimes(_, _)
CutTimes(d, n) ==
    IF n = 0 THEN d ELSE Times(CutTimes(d, n - 1), 0 - params.cutPct)

\* a configuration in which only the cut moves the discretionary level
OnlyCuts(p) == p.inflation = 0 /\ p.inflationSD = 0 /\ p.taper = 0

(* C18: in every simulated year, year 1 included, whose raw return is < 0   *)
(* the discretionary level is multiplied by (1 - cutPct) after the year's   *)
(* inflation/taper update and before the withdrawal is computed; a return   *)
(* of exactly 0 cuts nothing; no step undoes a cut, so after n loss years   *)
(* the level carries the factor (1 - cutPct)^n.                             *)
C18_PermanentCut ==
    /\ [][SimulatesYear =>
            \E updated \in { IF yr = 1 THEN w_disc_adj
                              ELSE YearFactor(w_disc_adj, yr, step'.clippedInfl) } :
               /\ w_disc_adj' = (IF step'.r < 0 THEN Times(updated, 0 - params.cutPct)
                                 ELSE updated)
               /\ step'.totalW >= w_disc_adj']_vars
    /\ [][(pc = "year" /\ ~ SimulatesYear) => w_disc_adj' = w_disc_adj]_vars
    /\ []((pc = "year" /\ yr >= 2 /\ OnlyCuts(params)) =>
            w_disc_adj = CutTimes(params.discretionarySpend,
                                  Cardinality(LossYears(yr - 1))))

\* losses in years 1 and 2, then a year that was not a loss and left the level
\* at its twice-cut value
C18_Witness ==
    /\ pc = "year" /\ yr = 4
    /\ OnlyCuts(params) /\ params.cutPct > 0 /\ params.discretionarySpend > 0
    /\ LossYears(3) = { 1, 2 }
    /\ w_disc_adj = CutTimes(params.discretionarySpend, 2)
    /\ w_disc_adj < CutTimes(params.discretionarySpend, 1)
    /\ step.year = 3 /\ step.r >= 0

\* essential = max(0, spending level - discretionary level)
Essential(spend, disc) == IF spend > disc THEN spend - disc ELSE 0

(* C19: the total withdrawal of a simulated year is essential + the         *)
(* discretionary level, with essential = max(0, spending level -            *)
(* discretionary level) never negative, both levels taken after the year's  *)
(* inflation/taper update and loss-year cut; that total is what the two     *)
(* buckets are debited before the floor at 0.                               *)
C19_TotalWithdrawal ==
    [][SimulatesYear =>
          /\ Essential(w_annual', w_disc_adj') >= 0
          /\ step'.totalW = Essential(w_annual', w_disc_adj') + w_disc_adj'
          /\ (step'.grown + step'.safeGrown) - (step'.preClamp + safeRemain')
                = step'.totalW]_vars

\* a year past year 1 in which the discretionary level, moved by the year's
\* update, exceeds the spending level, so that the essential part is 0
C19_Witness ==
    /\ pc = "year" /\ step.year >= 2 /\ yr = step.year + 1
    /\ w_annual > 0 /\ w_disc_adj > w_annual
    /\ w_disc_adj # params.discretionarySpend /\ w_annual # params.w0
    /\ step.totalW = w_disc_adj
    /\ Essential(w_annual, w_disc_adj) = 0

\* the reserve res after the growth step of a year
GrownReserve(res) ==
    IF res > 0 /\ params.reserveR > 0 THEN Times(res, params.reserveR) ELSE res

(* C20: in every simulated year the reserve is multiplied by (1 + reserveR) *)
(* when it is > 0 and reserveR > 0, and is left as it is otherwise; the     *)
(* year's withdrawal is taken from the reserve after that step.             *)
C20_ReserveGrowsFirst ==
    [][SimulatesYear =>
          /\ step'.safeGrown = GrownReserve(safeRemain)
          /\ safeRemain' \in { GrownReserve(safeRemain),
                               GrownReserve(safeRemain) - step'.totalW, 0 }
          /\ safeRemain' <= GrownReserve(safeRemain)]_vars

\* the first year of a second trial: the reserve grew from its starting
\* balance and the withdrawal came out of the grown balance
C20_Witness ==
    /\ pc = "year" /\ yr = 2 /\ step.year = 1 /\ sim >= 1
    /\ params.reserveR > 0
    /\ step.safeGrown = Times(InitialSafe(params), params.reserveR)
    /\ step.safeGrown > InitialSafe(params)
    /\ step.totalW > 0
    /\ safeRemain = step.safeGrown - step.totalW
    /\ safeRemain # Times(InitialSafe(params) - step.totalW, params.reserveR)

\* the inflation sampled in the year just simulated, before the clip
SampledInfl(log) == AnnualInfl(params, log[Len(log)].z1, log[Len(log)].z2)

(* C21: the inflation that scales spending is max(-0.99, sampled           *)
(* inflation), so the multiplier 1 + clipped inflation is >= 0.01; with    *)
(* w0 > 0 and 0 <= taper < 1 the spending level is > 0 in every year of    *)
(* every trial.                                                            *)
C21_InflationFloor ==
    /\ [][SimulatesYear =>
            /\ step'.clippedInfl
                  = (IF SampledInfl(drawn') < 0 - 99 THEN 0 - 99 ELSE SampledInfl(drawn'))
            /\ 100 + step'.clippedInfl >= 1]_vars
    /\ []((pc = "year" /\ params.w0 > 0 /\ params.taper >= 0 /\ params.taper < 100)
            => w_annual > 0)

\* a year past year 1 whose sampled inflation was below the floor: the level
\* shrank by the factor 0.01 (and the taper) and is still positive
C21_Witness ==
    /\ pc = "year" /\ step.year >= 2 /\ yr = step.year + 1
    /\ drawn # << >> /\ drawn[Len(drawn)].call = Len(history) + 1
    /\ SampledInfl(drawn) < 0 - 99
    /\ step.clippedInfl = 0 - 99
    /\ w_annual > 0 /\ w_annual < params.w0

\* the writes logged for the call in progress
WritesNow == SelectSeq(writes, IsCurrent)

\* the number of writes of the call in progress that went to cell c
WritesTo(c) == Cardinality({ k \in 1 .. Len(WritesNow) : WritesNow[k].cell = c })

(* C22: during a run no cell of the buffer is written twice, trial s writes *)
(* only cells yr * sims + s with 0 <= yr <= years and a step of trial s     *)
(* leaves every other trial's cells as they are; when the trials are done   *)
(* every cell has been written exactly once, and from then on no cell is    *)
(* written.                                                                 *)
C22_WriteOnce ==
    /\ []((pc # "idle" /\ Simulates(params)) =>
            /\ \A c \in 0 .. Len(totalByYear) - 1 : WritesTo(c) <= 1
            /\ \A k \in 1 .. Len(WritesNow) :
                  /\ WritesNow[k].cell % params.sims = WritesNow[k].sim
                  /\ WritesNow[k].cell \div params.sims \in 0 .. params.years)
    /\ []((pc = "percentiles" /\ Simulates(params)) =>
            \A c \in 0 .. Len(totalByYear) - 1 : WritesTo(c) = 1)
    /\ [][(pc \in { "trial", "year" } /\ Simulates(params)) =>
            \A i \in 1 .. Len(totalByYear) :
               (i - 1) % params.sims # sim => totalByYear'[i] = totalByYear[i]]_vars
    /\ [][pc = "percentiles" => (totalByYear' = totalByYear /\ writes' = writes)]_vars

\* the trials of a run are done; one of them stopped before the horizon and
\* had its remaining years filled, and a later one reached the horizon
C22_Witness ==
    /\ pc = "percentiles"
    /\ params.sims >= 3 /\ params.years >= 3
    /\ \E s, t \in 0 .. params.sims - 1 :
          s < t /\ LastYear(s) < params.years /\ Recorded(params.years, t) > 0
    /\ Len(WritesNow) = Len(totalByYear)
    /\ \E k \in 1 .. Len(WritesNow) - 1 :
          WritesNow[k].sim = 0 /\ WritesNow[k + 1].sim = 1

\* the state every trial starts from, as the configuration gives it
Fresh(p) ==
    LET reserve == p.safeBucketYears * p.w0
    IN  [ riskyCorpus |-> IF p.startCorpus - reserve > 0 THEN p.startCorpus - reserve
                          ELSE 0,
          safeRemain |-> IF reserve > p.startCorpus THEN p.startCorpus ELSE reserve,
          w_annual |-> p.w0, w_disc_adj |-> p.discretionarySpend ]

\* the shocks trial s drew in year y, with the return and inflation they give
ShocksOf(s, y) ==
    LET k == CHOOSE k \in 1 .. Len(DrawnNow) :
                 DrawnNow[k].sim = s /\ DrawnNow[k].year = y
        d == DrawnNow[k]
    IN  [ z1 |-> d.z1, z2 |-> d.z2, r |-> AnnualReturn(params, d.z1),
          annualInfl |-> AnnualInfl(params, d.z1, d.z2), rng |-> << >>,
          uniforms |-> 0 ]

\* the state of trial s after year y, from the fresh state and its own shocks
RECURSIVE Replay(_, _)
Replay(s, y) ==
    IF y = 0 THEN Fresh(params)
    ELSE Bind(Replay(s, y - 1),
              LAMBDA t : Bind(ShocksOf(s, y),
                              LAMBDA sh : AfterShocks(params, t, sh, y)))

ReplayValue(s, y) ==
    IF y > LastYear(s) THEN 0
    ELSE Bind(Replay(s, y), LAMBDA t : t.riskyCorpus + t.safeRemain)

(* C23: every trial starts from the state the configuration gives (risky =  *)
(* max(0, startCorpus - safeBucketYears * w0), the reserve, spending level  *)
(* w0, discretionary level discretionarySpend) whatever the trial before it *)
(* left, and the values a trial records are those its own shocks give from  *)
(* that state, whatever its index and the trials run before it.             *)
C23_FreshTrialState ==
    /\ [][(pc = "trial" /\ pc' = "year") =>
            << riskyCorpus', safeRemain', w_annual', w_disc_adj' >>
               = << Fresh(params).riskyCorpus, Fresh(params).safeRemain,
                    Fresh(params).w_annual, Fresh(params).w_disc_adj >>]_vars
    /\ []((pc = "percentiles" /\ Simulates(params)) =>
            \A s \in 0 .. params.sims - 1 : \A y \in 0 .. params.years :
               Recorded(y, s) = ReplayValue(s, y))

\* a run whose first trial had a loss year and spent from its reserve, and
\* whose second trial ended elsewhere
C23_Witness ==
    /\ pc = "percentiles"
    /\ params.sims >= 2 /\ params.years >= 2
    /\ params.cutPct > 0 /\ params.discretionarySpend > 0
    /\ params.safeBucketYears * params.w0 > 0
    /\ \E k \in 1 .. Len(DrawnNow) :
          DrawnNow[k].sim = 0 /\ AnnualReturn(params, DrawnNow[k].z1) < 0
    /\ Recorded(params.years, 0) # Recorded(params.years, 1)
    /\ Recorded(params.years, 1) = ReplayValue(1, params.years)
    /\ Recorded(params.years, 1) > 0

\* the generator states after 1, 2, ..., n calls of next() from state g
RECURSIVE StatesFrom(_, _)
StatesFrom(g, n) ==
    IF n = 0 THEN << >>
    ELSE Bind(NextState(g), LAMBDA g2 : << g2 >> \o StatesFrom(g2, n - 1))

\* (s0 + s1) mod 2^32 of a state, as a number of 16-bit halves
SumMod32(g) ==
    LET lo == g.s0.lo + g.s1.lo
        hi == g.s0.hi + g.s1.hi + lo \div 65536
    IN  [hi |-> hi % 65536, lo |-> lo % 65536]

\* the nonzero ones among the values the states sts return, in order
RECURSIVE NonZero(_)
NonZero(sts) ==
    IF sts = << >> THEN << >>
    ELSE (IF SumMod32(Head(sts)) = [hi |-> 0, lo |-> 0] THEN << >>
          ELSE << SumMod32(Head(sts)) >>) \o NonZero(Tail(sts))

(* C24: every next() returns ((s0 + s1) mod 2^32) / 2^32, a value in        *)
(* [0, 1); the two normal draws of a year take the first four nonzero       *)
(* uniforms of the stream, two each, in order, every zero met on the way    *)
(* being rejected, so that the values given to the logarithm are in (0, 1)  *)
(* and a normal draw consumes 2 uniforms plus one for each zero rejected.   *)
C24_ZeroRejection ==
    [][SimulatesYear =>
          \E sts \in { StatesFrom(rng, step'.uniforms) } :
          \E used \in { NonZero(sts) } :
             /\ step'.uniforms >= 4
             /\ rng' = sts[Len(sts)]
             /\ \A k \in 1 .. Len(sts) : NextValue(sts[k]) = SumMod32(sts[k])
             /\ Len(used) = 4
             /\ step'.uniforms = 4 + (Len(sts) - Len(used))
             /\ SumMod32(sts[Len(sts)]) # [hi |-> 0, lo |-> 0]
             /\ \A k \in 1 .. Len(sts) :
                   /\ SumMod32(sts[k]).hi \in 0 .. 65535
                   /\ SumMod32(sts[k]).lo \in 0 .. 65535
             /\ \A k \in 1 .. 4 : used[k].hi > 0 \/ used[k].lo > 0
             /\ drawn'[Len(drawn')].z1 = BoxMuller(used[1], used[2], 0, Scale)
             /\ drawn'[Len(drawn')].z2 = BoxMuller(used[3], used[4], 0, Scale)]_vars

\* the first year of a run whose third uniform was exactly 0: five uniforms
\* consumed, the zero being the first one drawn for z2
C24_Witness ==
    /\ pc = "year" /\ yr = 2 /\ sim = 0 /\ step.year = 1
    /\ params.randomSeed = ZeroDrawSeed
    /\ step.uniforms = 5
    /\ LET sts == StatesFrom(SeededRandom(ZeroDrawSeed), 5)
       IN  /\ NextValue(sts[3]) = ZeroWord
           /\ rng = sts[5]
           /\ drawn[Len(drawn)].z2
                 = BoxMuller(NextValue(sts[4]), NextValue(sts[5]), 0, Scale)

----------------------------------------------------------------------------
\* two configurations that differ at most in cutPct
SameButCut(p, q) == [p EXCEPT !.cutPct = 0] = [q EXCEPT !.cutPct = 0]

----------------------------------------------------------------------------
\* the policy sends the withdrawal of year y to the risky corpus, the reserve
\* being res and the raw return r
DebitsRisky(y, r, res) ==
    IF params.useFirstNYearsReserve
    THEN y > params.safeBucketYears \/ res = 0
    ELSE r >= 0 \/ res = 0

(* C26: in a year in which the policy debits the risky corpus (first-years  *)
(* mode: year > safeBucketYears or reserve 0; loss-year mode: a year that   *)
(* is no loss or reserve 0) the withdrawal leaves the reserve as it is,     *)
(* also when the risky corpus is smaller than the withdrawal: the shortfall *)
(* is dropped by the floor at 0. In first-years mode the reserve never      *)
(* decreases after year safeBucketYears, and a trial left with risky 0 and  *)
(* a reserve > 0 goes on to its next year.                                  *)
C26_NoSpillOver ==
    /\ [][(SimulatesYear /\ DebitsRisky(yr, step'.r, step'.safeGrown)) =>
            /\ safeRemain' = step'.safeGrown
            /\ riskyCorpus' = Max(0, step'.grown - step'.totalW)]_vars
    /\ [][(SimulatesYear /\ params.useFirstNYearsReserve
              /\ yr > params.safeBucketYears) => safeRemain' >= safeRemain]_vars
    /\ [][(SimulatesYear /\ riskyCorpus' = 0 /\ safeRemain' > 0) =>
            /\ ~ step'.terminal
            /\ pc' = "year" /\ yr' = yr + 1 /\ sim' = sim
            /\ Load(totalByYear', yr * params.sims + sim) = << safeRemain' >>]_vars

\* a year whose withdrawal went to a risky corpus smaller than it while the
\* reserve held money: the reserve is what it was after its yield, the risky
\* corpus is 0 and the trial goes on
C26_Witness ==
    /\ pc = "year" /\ yr = step.year + 1
    /\ DebitsRisky(step.year, step.r, step.safeGrown)
    /\ step.safeGrown > 0 /\ step.totalW > 0
    /\ step.grown >= 0 /\ step.grown < step.totalW
    /\ riskyCorpus = 0 /\ safeRemain = step.safeGrown
    /\ ~ step.terminal

----------------------------------------------------------------------------
\* what the bucket or buckets that the policy draws on in year y hold after
\* growth: the reserve res with the risky corpus behind it, or the risky
\* corpus alone
ChosenHold(y, r, risky, res) ==
    IF params.useFirstNYearsReserve
    THEN IF y <= params.safeBucketYears /\ res > 0 THEN res + risky ELSE risky
    ELSE IF r < 0 /\ res > 0 THEN res + risky ELSE risky

\* what the step just taken removed from the two buckets after their growth
Removed == (step'.grown + step'.safeGrown) - (riskyCorpus' + safeRemain')

(* C27: in every simulated year with a return >= -1 and a total withdrawal  *)
(* W >= 0 the recorded value is (risky after growth + reserve after yield)  *)
(* - d with 0 <= d <= W, and d = W whenever the bucket or buckets that the  *)
(* policy draws on hold at least W after growth.                            *)
C27_WithdrawalBounded ==
    [][(SimulatesYear /\ step'.r >= 0 - Scale /\ step'.totalW >= 0) =>
          /\ Load(totalByYear', yr * params.sims + sim)
                = << (step'.grown + step'.safeGrown) - Removed >>
          /\ Removed >= 0 /\ Removed <= step'.totalW
          /\ (ChosenHold(yr, step'.r, step'.grown, step'.safeGrown) >= step'.totalW
                => Removed = step'.totalW)]_vars

\* a year whose withdrawal emptied a reserve smaller than it and then the
\* risky corpus behind it: less than the withdrawal was removed, and no more
\* than the two buckets held
C27_Witness ==
    /\ pc \in { "year", "trial" } /\ step.year >= 1 /\ step.r >= 0 - Scale
    /\ step.totalW > 0
    /\ step.safeGrown > 0 /\ step.safeGrown < step.totalW /\ step.grown > 0
    /\ step.preClamp < 0
    /\ riskyCorpus = 0 /\ safeRemain = 0
    /\ step.grown + step.safeGrown < step.totalW

----------------------------------------------------------------------------
\* the runs of the simulation that answered change n
RunsOf(n) == { k \in 1 .. Len(ran) : ran[k].change = n }

\* a simulation is owed: a timer is pending or its callback is running
Owed == timers # { } \/ callback # << >>

(* C28: every parameter change and the unmount cancel the pending timer     *)
(* before another is scheduled: at most one timer is pending, and a timer   *)
(* that was cancelled never runs the simulation. After a burst of changes   *)
(* the simulation eventually runs, once, with the latest parameters; the    *)
(* data shown are the results of that run; the flag is true from the change *)
(* until the run has finished and false afterwards.                         *)
C28_Debounce ==
    /\ [](Cardinality(timers) <= 1)
    /\ [](\A t \in timers : mounted /\ << t.id >> = debounceRef
                               /\ t.params = uiParams /\ t.change = changes)
    /\ [][ran' # ran =>
            /\ mounted /\ ran' = Append(ran, ran'[Len(ran')])
            /\ << ran'[Len(ran')].id >> = debounceRef
            /\ ran'[Len(ran')].params = uiParams
            /\ ran'[Len(ran')].change = changes]_vars
    /\ [](\A n \in 0 .. MaxChanges : Cardinality(RunsOf(n)) <= 1)
    /\ [](mounted => (isSimulating <=> Owed))
    /\ []((mounted /\ ~ isSimulating) =>
            /\ Cardinality(RunsOf(changes)) = 1
            /\ Len(history) = Len(ran)
            /\ history[Len(history)].params = uiParams
            /\ ~ history[Len(history)].threw
            /\ data = history[Len(history)].results)
    /\ (mounted /\ isSimulating) ~> (~ mounted \/ ~ isSimulating)

\* a burst of two changes after the mount, answered by one run: two timers
\* were cancelled, the third ran with the parameters of the last change and
\* its results are shown
C28_Witness ==
    /\ mounted /\ ~ isSimulating
    /\ changes = 2 /\ nextTimer = 4
    /\ Len(ran) = 1 /\ ran[1].id = 3 /\ ran[1].params = uiParams
    /\ uiParams # DEFAULT_PARAMS
    /\ Len(history) = 1 /\ data = history[1].results /\ data # << >>

----------------------------------------------------------------------------
\* a === b and a >= 0 for numbers that may be NaN
SameNumber(a, b) == a # NaN /\ b # NaN /\ a = b

AtLeastZero(a) == a # NaN /\ a[1] >= 0

\* the rows are numbered 1, 2, ..., none ends below 0, each starts where the
\* row before it ended, and none follows a row that ended at 0
ProjectionChain ==
    /\ Len(rows) <= Max(0, gkArgs[1].years)
    /\ \A k \in DOMAIN rows :
          /\ rows[k].year = k
          /\ AtLeastZero(rows[k].endPortfolio)
          /\ k > 1 =>
                /\ SameNumber(rows[k].startPortfolio, rows[k - 1].endPortfolio)
                /\ SameNumber(rows[k].priorWithdrawal, rows[k - 1].finalWithdrawal)
                /\ rows[k - 1].endPortfolio # << 0 >>

(* C29: generateProjections returns at most `years` rows numbered 1, 2, ... *)
(* consecutively; every row's endPortfolio is >= 0; each row after the      *)
(* first has startPortfolio equal to the endPortfolio of the row before it  *)
(* and priorWithdrawal equal to that row's finalWithdrawal; no row follows  *)
(* a row whose endPortfolio is 0.                                           *)
C29_ProjectionChain == gkPc = "done" => ProjectionChain

\* the chain holds of every projection whose simulated returns and inflations
\* are all numbers
C29_ChainOfNumbers ==
    (gkPc = "done" /\ \A k \in DOMAIN rows : /\ rows[k].nominalReturn # NaN
                                              /\ rows[k].inflation # NaN)
       => ProjectionChain

----------------------------------------------------------------------------
(* C30: the generator is xorshift128+ with period 2^128 - 1: from any seed  *)
(* the states produced by successive next() calls do not return to an       *)
(* earlier state before 2^128 - 1 draws. Here: within MaxNextCalls draws,   *)
(* far fewer than 2^128 - 1, the state is never again the one the generator *)
(* was constructed with.                                                    *)
C30_NoReturn == (nextCalls \in 1 .. MaxNextCalls) => generator # constructed

\* the state a generator holds is two words of 32 bits
C30_StateIsTwoWords ==
    generator # << >> =>
        /\ DOMAIN generator[1] = { "s0", "s1" }
        /\ \A w \in { generator[1].s0, generator[1].s1 } :
              w.hi \in 0 .. H - 1 /\ w.lo \in 0 .. H - 1
====
